---- MODULE Spec2Model ----
(***************************************************************************)
(* A model of Draft/PythonLibraries/blender_tools.py: the helper functions *)
(* of the scripting console (object queries, camera poses, camera          *)
(* trajectories, mesh construction, point-cloud export) together with the  *)
(* part of the host application's scene state they read and write.         *)
(*                                                                         *)
(* Object and mesh names are sequences of character codes, so that         *)
(* startswith/endswith and the ordering used by sorted() are computed.     *)
(* Rotations are quaternions with integer components that stand for the    *)
(* unit quaternion in the same direction; angles are counted in units of   *)
(* 30 degrees.                                                             *)
(***************************************************************************)
EXTENDS Integers, Sequences, FiniteSets, TLC

VARIABLES
    objects,        \* bpy.data.objects / scene.objects, in link order
    meshes,         \* bpy.data.meshes: mesh name -> mesh datablock
    active,         \* bpy.context.scene.objects.active (an object name or None)
    frame_current,  \* bpy.context.scene.frame_current
    pc,             \* the position of the running function
    args,           \* the arguments of the call
    locals,         \* the local variables of the running function
    out,            \* what the call returned, printed or handed to a save routine
    before          \* the scene as it was when the call was made

vars == <<objects, meshes, active, frame_current, pc, args, locals, out, before>>

\* None; an optional value is None or Some(v)
None == <<>>

Some(v) == <<v>>

The(opt) == opt[1]

\* ---------------------------------------------------------------- bounds

MaxObjects == 2

\* ------------------------------------------------------- sequences, names

Range(s) == {s[i] : i \in 1..Len(s)}

RECURSIVE Concat(_)
Concat(ss) == IF ss = <<>> THEN <<>> ELSE Head(ss) \o Concat(Tail(ss))

\* str.startswith / str.endswith
startswith(s, p) == Len(p) <= Len(s) /\ SubSeq(s, 1, Len(p)) = p

endswith(s, p) == Len(p) <= Len(s) /\ SubSeq(s, Len(s) - Len(p) + 1, Len(s)) = p

\* the order of Python strings: by code point, a proper prefix first
RECURSIVE StrLess(_, _)
StrLess(a, b) ==
    IF b = <<>> THEN FALSE
    ELSE IF a = <<>> THEN TRUE
    ELSE IF Head(a) # Head(b) THEN Head(a) < Head(b)
    ELSE StrLess(Tail(a), Tail(b))

\* the order of the (name, object) tuples: by their first component
TupleLess(x, y) == StrLess(x[1], y[1])

RECURSIVE Insert(_, _)
Insert(x, s) ==
    IF s = <<>> THEN <<x>>
    ELSE IF TupleLess(x, Head(s)) THEN <<x>> \o s
    ELSE <<Head(s)>> \o Insert(x, Tail(s))

\* sorted() left out: the list in the order of the collection
sorted_Unsorted(s) == s

\* sorted(): a stable sort of a list of tuples
RECURSIVE sorted(_)
sorted(s) == IF s = <<>> THEN <<>> ELSE Insert(s[Len(s)], sorted(SubSeq(s, 1, Len(s) - 1)))

\* ------------------------------------------------------------ scene state

VAdd(a, b) == <<a[1] + b[1], a[2] + b[2], a[3] + b[3]>>

VSub(a, b) == <<a[1] - b[1], a[2] - b[2], a[3] - b[3]>>

VNeg(a) == <<-a[1], -a[2], -a[3]>>

VScale(k, a) == <<k * a[1], k * a[2], k * a[3]>>

\* a quarter turn about the Z axis, k times
RECURSIVE RotZ(_, _)
RotZ(k, v) == IF k = 0 THEN v ELSE RotZ(k - 1, <<-v[2], v[1], v[3]>>)

\* ob.matrix_world * v, for the matrices of the model: k quarter turns about Z,
\* then a translation
MatMul(m, v) == VAdd(RotZ(m.rot, v), m.loc)

\* m.inverted() * v
MatInvMul(m, v) == RotZ((4 - m.rot) % 4, VSub(v, m.loc))

ObjectIndex(obs, name) == CHOOSE i \in 1..Len(obs) : obs[i].name = name

HasObject(obs, name) == \E i \in 1..Len(obs) : obs[i].name = name

Object(obs, name) == obs[ObjectIndex(obs, name)]

SetField(obs, name, f, v) == [obs EXCEPT ![ObjectIndex(obs, name)] = [@ EXCEPT ![f] = v]]

\* bpy.context.selected_objects
selected_objects(obs) == [i \in 1..Len(SelectSeq(obs, LAMBDA o : o.select)) |->
                            SelectSeq(obs, LAMBDA o : o.select)[i].name]

\* bpy.context.scene.objects
scene_objects(obs) == [i \in 1..Len(obs) |-> obs[i].name]

\* ----------------------------------------------------------------- bounds

MaxCoords == 3

MaxTranslation == 1

MaxNodes == 2

MaxFrame == 3

MaxStartFrame == 2

\* ------------------------------------------------- the scenes of the model

\* "A", "AB", "B", "BA"
ObjectNames == {<<65>>, <<65, 66>>, <<66>>, <<66, 65>>}

\* "", "A"
Affixes == {<<>>, <<65>>}

ObjectTypes == {"MESH", "CAMERA"}

Origin == <<0, 0, 0>>

\* an object datablock with the host's defaults
NewObject(name, type, data) ==
    [name |-> name, type |-> type, select |-> FALSE, data |-> data,
     location |-> Origin, matrix_world |-> [rot |-> 0, loc |-> Origin],
     rotation_mode |-> "XYZ", rotation_euler |-> <<0, 0, 0>>,
     rotation_quaternion |-> <<1, 0, 0, 0>>, rotation_axis_angle |-> <<0, 0, 1, 0>>,
     keyframes |-> {}]

\* a mesh datablock
NewMesh == [verts |-> <<>>, edges |-> <<>>, faces |-> <<>>]

\* the mesh of the scene object called name: Len(name) + (first letter - "A")
\* vertices, chained by edges
SceneMesh(name) ==
    LET n == Len(name) + name[1] - 65
    IN  [verts |-> [i \in 1..n |-> <<i, Len(name), name[1] - 64>>],
         edges |-> [i \in 1..(n - 1) |-> <<i - 1, i>>],
         faces |-> IF n >= 3 THEN << <<0, 1, 2>> >> ELSE <<>>]

\* the scene object called name: a mesh object carries the mesh of its name,
\* turned and moved away from the origin
SceneObject(name, type, select) ==
    [NewObject(name, type, IF type = "MESH" THEN name ELSE None) EXCEPT
        !.select = select,
        !.location = <<10 * (name[1] - 64), Len(name), 0>>,
        !.matrix_world = [rot |-> Len(name) - 1,
                          loc |-> <<10 * (name[1] - 64), Len(name), 0>>]]

\* the scenes: up to MaxObjects objects with distinct names, in any link order,
\* each a mesh or a camera, each selected or not
Scenes ==
    UNION {
        {[i \in 1..n |-> SceneObject(names[i], types[i], sel[i])] :
            names \in {f \in [1..n -> ObjectNames] :
                          \A i, j \in 1..n : i # j => f[i] # f[j]},
            types \in [1..n -> ObjectTypes],
            sel \in [1..n -> BOOLEAN]} :
        n \in 0..MaxObjects}

MeshesOf(obs) ==
    [m \in {obs[i].data : i \in {j \in 1..Len(obs) : obs[j].type = "MESH"}} |->
        SceneMesh(m)]

Scene(obs, ms, act, frame) ==
    [objects |-> obs, meshes |-> ms, active |-> act, frame_current |-> frame]

CurrentScene == Scene(objects, meshes, active, frame_current)

\* ------------------------------------------------------------ get_objects

\* [(ob.name, ob) for ob in objects if ...]: an object is referred to by its name
Matching(obs, from, name_starts_with, name_ends_with) ==
    LET keep(n) == /\ startswith(n, name_starts_with)
                   /\ endswith(n, name_ends_with)
                   /\ Object(obs, n).type = "MESH"
        kept == SelectSeq(from, keep)
    IN  [i \in 1..Len(kept) |-> <<kept[i], kept[i]>>]

get_objects(obs, by_selection, name_starts_with, name_ends_with) ==
    LET from == IF by_selection THEN selected_objects(obs) ELSE scene_objects(obs)
    IN  sorted(Matching(obs, from, name_starts_with, name_ends_with))

\* --------------------------------- extract_points_to_MATLAB / _to_pcd_file

\* vertex.co without ob.matrix_world: the local coordinates
WorldVerts_Local(obs, ms, ob) == ms[Object(obs, ob).data].verts

\* [tuple(ob.matrix_world * vertex.co) for vertex in ob.data.vertices]
WorldVerts(obs, ms, ob) ==
    LET o == Object(obs, ob)
        vs == ms[o.data].verts
    IN  [i \in 1..Len(vs) |-> MatMul(o.matrix_world, vs[i])]

\* the loop "for ob_name, ob in get_objects(...): verts += [...]"
RECURSIVE CollectVerts(_, _, _)
CollectVerts(obs, ms, pairs) ==
    IF pairs = <<>> THEN <<>>
    ELSE WorldVerts(obs, ms, Head(pairs)[2]) \o CollectVerts(obs, ms, Tail(pairs))

\* np.array(verts): the rows with their shape; an empty list has shape (0,)
np_array(verts) ==
    [shape |-> IF verts = <<>> THEN <<0>> ELSE <<Len(verts), 3>>, rows |-> verts]

extract_points(obs, ms, a) ==
    np_array(CollectVerts(obs, ms,
                get_objects(obs, a.by_selection, a.name_starts_with, a.name_ends_with)))

\* ------------------------------------------------ the console: queries

QueryArgs ==
    [by_selection : BOOLEAN, name_starts_with : Affixes, name_ends_with : Affixes]

InitQuery ==
    /\ objects \in Scenes
    /\ meshes = MeshesOf(objects)
    /\ active = None
    /\ frame_current = 1
    /\ pc = "console"
    /\ args \in QueryArgs
    /\ locals = None
    /\ out = [ret |-> None, mat |-> None, pcd |-> None]
    /\ before = CurrentScene

Call_get_objects ==
    /\ pc = "console"
    /\ out.ret = None
    /\ out' = [out EXCEPT !.ret = Some(get_objects(objects, args.by_selection,
                                    args.name_starts_with, args.name_ends_with))]
    /\ UNCHANGED <<objects, meshes, active, frame_current, pc, args, locals, before>>

\* sio.savemat(filename, {var_name: verts})
Call_extract_points_to_MATLAB ==
    /\ pc = "console"
    /\ out.mat = None
    /\ out' = [out EXCEPT !.mat = Some(extract_points(objects, meshes, args))]
    /\ UNCHANGED <<objects, meshes, active, frame_current, pc, args, locals, before>>

\* dataset_tools.save_3D_points_to_pcd_file(filename, verts)
Call_extract_points_to_pcd_file ==
    /\ pc = "console"
    /\ out.pcd = None
    /\ out' = [out EXCEPT !.pcd = Some(extract_points(objects, meshes, args))]
    /\ UNCHANGED <<objects, meshes, active, frame_current, pc, args, locals, before>>

NextQuery ==
    \/ Call_get_objects
    \/ Call_extract_points_to_MATLAB
    \/ Call_extract_points_to_pcd_file

SpecQuery == InitQuery /\ [][NextQuery]_vars

\* ---- what the queries are expected to designate (read off the scene itself)

\* the names of the source collection
SourceNames(obs, by_selection) ==
    {obs[i].name : i \in {j \in 1..Len(obs) : by_selection => obs[j].select}}

\* the mesh objects of the source collection with the prefix and the suffix
Designated(obs, a) ==
    {n \in SourceNames(obs, a.by_selection) :
        /\ Object(obs, n).type = "MESH"
        /\ startswith(n, a.name_starts_with)
        /\ endswith(n, a.name_ends_with)}

VertexCount(obs, ms, n) == Len(ms[Object(obs, n).data].verts)

RECURSIVE TotalVertices(_, _, _)
TotalVertices(obs, ms, names) ==
    IF names = {} THEN 0
    ELSE LET n == CHOOSE x \in names : TRUE
         IN  VertexCount(obs, ms, n) + TotalVertices(obs, ms, names \ {n})

\* the rows that precede those of object n: the vertices of the designated
\* objects whose names are smaller
RowsBefore(obs, ms, a, n) ==
    TotalVertices(obs, ms, {p \in Designated(obs, a) : StrLess(p, n)})

ExpectedPoints(obs, ms, a, file) ==
    /\ Len(file.rows) = TotalVertices(obs, ms, Designated(obs, a))
    /\ \A n \in Designated(obs, a) : \A i \in 1..VertexCount(obs, ms, n) :
          file.rows[RowsBefore(obs, ms, a, n) + i] =
              MatMul(Object(obs, n).matrix_world, ms[Object(obs, n).data].verts[i])

\* C1: get_objects returns exactly one (name, object) pair for every MESH object
\* of the source collection (the selected objects when by_selection, else all
\* objects of the scene) whose name has the prefix and the suffix, and no other
\* pair, in ascending order of name, and leaves the scene as it was.
C1_GetObjectsExactSorted ==
    out.ret # None =>
        LET r == The(out.ret)
        IN  /\ Range(r) = {<<n, n>> : n \in Designated(objects, args)}
            /\ Len(r) = Cardinality(Designated(objects, args))
            /\ \A i, j \in 1..Len(r) : i < j => StrLess(r[i][1], r[j][1])
            /\ CurrentScene = before

\* two objects are returned, linked in the scene in descending order of name,
\* under a non-empty prefix
C1_Witness ==
    /\ out.ret # None
    /\ Len(The(out.ret)) = 2
    /\ Len(objects) = 2
    /\ StrLess(objects[2].name, objects[1].name)
    /\ args.name_starts_with # <<>>

\* C4: extract_points_to_MATLAB and extract_points_to_pcd_file hand the same
\* vertex sequence to their save routines: the world-space positions of the
\* vertices of the designated objects, grouped per object in ascending order of
\* name and in the object's vertex order, as many as the objects have vertices;
\* the scene is left as it was.
C4_SamePointsToBothSavers ==
    /\ (out.mat # None /\ out.pcd # None) => out.mat = out.pcd
    /\ out.mat # None => ExpectedPoints(objects, meshes, args, The(out.mat))
    /\ out.pcd # None => ExpectedPoints(objects, meshes, args, The(out.pcd))
    /\ (out.mat # None \/ out.pcd # None) => CurrentScene = before

\* both files were written from two designated objects that are linked in
\* descending order of name and are turned and moved in the world
C4_Witness ==
    /\ out.mat # None
    /\ out.pcd # None
    /\ Cardinality(Designated(objects, args)) = 2
    /\ StrLess(objects[2].name, objects[1].name)
    /\ Len(The(out.pcd).rows) >= 3
    /\ \E i \in 1..2 : objects[i].matrix_world.rot # 0

\* ------------------------------------- host operators used by the ply export

\* bpy.ops.object.select_all(action="DESELECT")
select_all_DESELECT(obs) == [i \in 1..Len(obs) |-> [obs[i] EXCEPT !.select = FALSE]]

\* "for ob_name, ob in pairs: ob.select = True; scene.objects.active = ob"
RECURSIVE SelectEach(_, _, _)
SelectEach(obs, act, pairs) ==
    IF pairs = <<>> THEN [objects |-> obs, active |-> act]
    ELSE SelectEach(SetField(obs, Head(pairs)[2], "select", TRUE), Head(pairs)[2], Tail(pairs))

\* "for ob in names: ob.select = True"
RECURSIVE SelectAll(_, _)
SelectAll(obs, names) ==
    IF names = <<>> THEN obs
    ELSE SelectAll(SetField(obs, Head(names), "select", TRUE), Tail(names))

\* the name the host gives a copy: name + ".001"
CopyName(name) == name \o <<46, 48, 48, 49>>

\* bpy.ops.object.duplicate(): every selected object is copied with its mesh; the
\* copies are selected instead of the originals, and the copy of the active
\* object becomes the active object
object_duplicate(obs, ms, act) ==
    LET sel == selected_objects(obs)
        copy(n) == [Object(obs, n) EXCEPT
                        !.name = CopyName(n),
                        !.data = IF Object(obs, n).data = None THEN None
                                 ELSE CopyName(Object(obs, n).data)]
        copied == {Object(obs, sel[i]).data : i \in 1..Len(sel)} \ {None}
    IN  [objects |-> select_all_DESELECT(obs) \o [i \in 1..Len(sel) |-> copy(sel[i])],
         meshes |-> [m \in DOMAIN ms \cup {CopyName(d) : d \in copied} |->
                        IF m \in DOMAIN ms THEN ms[m]
                        ELSE ms[CHOOSE d \in copied : CopyName(d) = m]],
         active |-> IF act # None /\ Object(obs, act).select THEN CopyName(act) ELSE act]

\* the geometry of object n in the local coordinates of object into, its vertex
\* indices shifted by base
Moved(obs, ms, n, into, base) ==
    LET o == Object(obs, n)
        me == ms[o.data]
        shift(t) == [k \in 1..Len(t) |-> t[k] + base]
    IN  [verts |-> [i \in 1..Len(me.verts) |->
                      MatInvMul(Object(obs, into).matrix_world,
                                MatMul(o.matrix_world, me.verts[i]))],
         edges |-> [i \in 1..Len(me.edges) |-> shift(me.edges[i])],
         faces |-> [i \in 1..Len(me.faces) |-> shift(me.faces[i])]]

RECURSIVE JoinInto(_, _, _, _, _)
JoinInto(obs, ms, me, into, others) ==
    IF others = <<>> THEN me
    ELSE LET g == Moved(obs, ms, Head(others), into, Len(me.verts))
         IN  JoinInto(obs, ms,
                      [verts |-> me.verts \o g.verts, edges |-> me.edges \o g.edges,
                       faces |-> me.faces \o g.faces],
                      into, Tail(others))

\* bpy.ops.object.join(): the selected mesh objects are merged into the active
\* object, which keeps its own vertices first; the others leave the scene. The
\* operator is cancelled when the active object is not a selected mesh.
object_join(obs, ms, act) ==
    IF act = None \/ ~Object(obs, act).select \/ Object(obs, act).type # "MESH"
    THEN [objects |-> obs, meshes |-> ms, active |-> act]
    ELSE LET others == SelectSeq(selected_objects(obs),
                                 LAMBDA n : n # act /\ Object(obs, n).type = "MESH")
             target == Object(obs, act).data
         IN  [objects |-> SelectSeq(obs, LAMBDA o : o.name \notin Range(others)),
              meshes |-> [ms EXCEPT ![target] = JoinInto(obs, ms, ms[target], act, others)],
              active |-> act]

\* editmode_toggle() needs an active object that can be edited
editmode_toggle_poll(obs, act) == act # None /\ Object(obs, act).type = "MESH"

\* mesh.select_all, mesh.delete(type='EDGE_FACE'), mesh.select_all,
\* mesh.edge_face_add, mesh.quads_convert_to_tris on a mesh in edit mode: the
\* edges and faces go; all vertices together make one face (from 3 vertices on),
\* which is cut into triangles, or one edge (2 vertices)
DummyFaces(me) ==
    LET n == Len(me.verts)
    IN  [verts |-> me.verts,
         edges |-> IF n = 2 THEN << <<0, 1>> >> ELSE <<>>,
         faces |-> [i \in 1..(n - 2) |-> <<0, i, i + 1>>]]

\* the vertex indices of the faces in the order of their first use
RECURSIVE FirstUse(_, _)
FirstUse(idx, seen) ==
    IF idx = <<>> THEN <<>>
    ELSE IF Head(idx) \in seen THEN FirstUse(Tail(idx), seen)
    ELSE <<Head(idx)>> \o FirstUse(Tail(idx), seen \cup {Head(idx)})

\* bpy.ops.export_mesh.ply(): the world-space positions of the vertices of the
\* active object that its faces use
export_mesh_ply(obs, ms, act) ==
    LET o == Object(obs, act)
        me == ms[o.data]
        used == FirstUse(Concat(me.faces), {})
    IN  [i \in 1..Len(used) |-> MatMul(o.matrix_world, me.verts[used[i] + 1])]

\* bpy.ops.object.delete(use_global=True): the selected objects leave the scene
object_delete(obs, act) ==
    [objects |-> SelectSeq(obs, LAMBDA o : ~o.select),
     active |-> IF act # None /\ Object(obs, act).select THEN None ELSE act]

\* ------------------------------------------- extract_points_to_ply_file

selected_objects_backup_AfterDeselect(obs) == selected_objects(select_all_DESELECT(obs))

\* selected_objects_backup = bpy.context.selected_objects
selected_objects_backup(obs) == selected_objects(obs)

InitPly ==
    /\ objects \in Scenes
    /\ meshes = MeshesOf(objects)
    /\ active \in {None} \cup Range(scene_objects(objects))
    /\ frame_current = 1
    /\ pc = "ply_backup"
    /\ args \in QueryArgs
    /\ locals = [selected_objects_backup |-> <<>>, active_object_backup |-> None]
    /\ out = [ply |-> None]
    /\ before = CurrentScene

\* lines 272-273
Ply_Backup ==
    /\ pc = "ply_backup"
    /\ locals' = [selected_objects_backup |-> selected_objects_backup(objects),
                  active_object_backup |-> active]
    /\ pc' = "ply_deselect"
    /\ UNCHANGED <<objects, meshes, active, frame_current, args, out, before>>

\* line 276
Ply_Deselect ==
    /\ pc = "ply_deselect"
    /\ objects' = select_all_DESELECT(objects)
    /\ pc' = "ply_select"
    /\ UNCHANGED <<meshes, active, frame_current, args, locals, out, before>>

\* lines 277-279
Ply_Select ==
    /\ pc = "ply_select"
    /\ LET r == SelectEach(objects, active,
                           get_objects(objects, args.by_selection,
                                       args.name_starts_with, args.name_ends_with))
       IN  objects' = r.objects /\ active' = r.active
    /\ pc' = "ply_duplicate"
    /\ UNCHANGED <<meshes, frame_current, args, locals, out, before>>

\* line 282
Ply_Duplicate ==
    /\ pc = "ply_duplicate"
    /\ LET r == object_duplicate(objects, meshes, active)
       IN  objects' = r.objects /\ meshes' = r.meshes /\ active' = r.active
    /\ pc' = "ply_join"
    /\ UNCHANGED <<frame_current, args, locals, out, before>>

\* lines 283-284
Ply_Join ==
    /\ pc = "ply_join"
    /\ LET r == IF Len(selected_objects(objects)) > 1
                THEN object_join(objects, meshes, active)
                ELSE [objects |-> objects, meshes |-> meshes, active |-> active]
       IN  objects' = r.objects /\ meshes' = r.meshes /\ active' = r.active
    /\ pc' = "ply_editmode"
    /\ UNCHANGED <<frame_current, args, locals, out, before>>

\* lines 287-293; the first editmode_toggle() raises when its poll fails
Ply_DummyFaces ==
    /\ pc = "ply_editmode"
    /\ IF editmode_toggle_poll(objects, active)
       THEN /\ meshes' = [meshes EXCEPT ![Object(objects, active).data] = DummyFaces(@)]
            /\ pc' = "ply_export"
       ELSE /\ meshes' = meshes
            /\ pc' = "raised"
    /\ UNCHANGED <<objects, active, frame_current, args, locals, out, before>>

\* line 295
Ply_Export ==
    /\ pc = "ply_export"
    /\ out' = [out EXCEPT !.ply = Some(export_mesh_ply(objects, meshes, active))]
    /\ pc' = "ply_delete"
    /\ UNCHANGED <<objects, meshes, active, frame_current, args, locals, before>>

\* line 296
Ply_Delete ==
    /\ pc = "ply_delete"
    /\ LET r == object_delete(objects, active)
       IN  objects' = r.objects /\ active' = r.active
    /\ pc' = "ply_restore"
    /\ UNCHANGED <<meshes, frame_current, args, locals, out, before>>

\* lines 299-302
Ply_Restore ==
    /\ pc = "ply_restore"
    /\ objects' = SelectAll(select_all_DESELECT(objects), locals.selected_objects_backup)
    /\ active' = locals.active_object_backup
    /\ pc' = "done"
    /\ UNCHANGED <<meshes, frame_current, args, locals, out, before>>

NextPly ==
    \/ Ply_Backup
    \/ Ply_Deselect
    \/ Ply_Select
    \/ Ply_Duplicate
    \/ Ply_Join
    \/ Ply_DummyFaces
    \/ Ply_Export
    \/ Ply_Delete
    \/ Ply_Restore

SpecPly == InitPly /\ [][NextPly]_vars

\* the world-space positions of the vertices of the objects named
AllWorldVerts(obs, ms, names) == UNION {Range(WorldVerts(obs, ms, n)) : n \in names}

\* C2: extract_points_to_ply_file exports the vertices of exactly the objects
\* that get_objects designates in the scene as it is when the function is
\* called (with by_selection, the selected mesh objects with the prefix and the
\* suffix). Stated for calls that extract at least 3 vertices, as the docstring
\* requires.
C2_PlyExportsDesignated ==
    (pc = "done" /\
     TotalVertices(before.objects, before.meshes, Designated(before.objects, args)) >= 3)
        => /\ Range(The(out.ply)) =
                AllWorldVerts(before.objects, before.meshes, Designated(before.objects, args))
           /\ Len(The(out.ply)) =
                TotalVertices(before.objects, before.meshes, Designated(before.objects, args))

\* C3: when extract_points_to_ply_file returns, the selected objects and the
\* active object are those of the moment of the call.
C3_PlyRestoresSelection ==
    pc = "done" =>
        /\ Range(selected_objects(objects)) = Range(selected_objects(before.objects))
        /\ active = before.active

\* the call returned after two objects were copied, joined, exported and deleted,
\* from a scene with a selected object and an active object that is not selected
C3_Witness ==
    /\ pc = "done"
    /\ Cardinality(Designated(before.objects, args)) = 2
    /\ Len(The(out.ply)) >= 3
    /\ Len(objects) = Len(before.objects)
    /\ selected_objects(before.objects) # <<>>
    /\ before.active # None
    /\ ~Object(before.objects, before.active).select

\* ----------------------------------------------------------- create_mesh

Min(a, b) == IF a <= b THEN a ELSE b

\* list(range(a, b))
range(a, b) == [i \in 1..(b - a) |-> a + i - 1]

\* list(zip(x, y))
zip(x, y) == [i \in 1..Min(Len(x), Len(y)) |-> <<x[i], y[i]>>]

\* the name a new datablock gets in a collection: the name asked for, or that
\* name with a number when it is taken
UniqueName(taken, name) ==
    IF name \notin taken THEN name
    ELSE IF name \o <<46, 48, 48, 49>> \notin taken THEN name \o <<46, 48, 48, 49>>
    ELSE name \o <<46, 48, 48, 50>>

\* name + "Mesh"
mesh_name(name) == name \o <<77, 101, 115, 104>>

\* the edges of successive vertices, one too many
connect_edges_OneMore(coords) == zip(range(0, Len(coords)), range(1, Len(coords) + 1))

\* list(zip(range(len(coords) - 1), range(1, len(coords))))
connect_edges(coords) == zip(range(0, Len(coords) - 1), range(1, Len(coords)))

\* lines 223-226: a list is false when it is empty, as None is
choose_edges(coords, connect, edges) ==
    IF connect THEN connect_edges(coords)
    ELSE IF edges = <<>> THEN <<>>
    ELSE edges

\* me.from_pydata(coords, edges, faces): the geometry is added to the mesh
from_pydata(me, coords, edges, faces) ==
    [verts |-> me.verts \o coords, edges |-> me.edges \o edges, faces |-> me.faces \o faces]

\* the edges around a face
FaceLoop(f) == [i \in 1..Len(f) |-> <<f[i], f[(i % Len(f)) + 1]>>]

RECURSIVE AddEdges(_, _)
AddEdges(edges, more) ==
    IF more = <<>> THEN edges
    ELSE IF Head(more) \in Range(edges) \/ <<Head(more)[2], Head(more)[1]>> \in Range(edges)
         THEN AddEdges(edges, Tail(more))
    ELSE AddEdges(Append(edges, Head(more)), Tail(more))

\* me.update(calc_edges=True): the edges of the faces are added
mesh_update(me) ==
    [me EXCEPT !.edges = AddEdges(@, Concat([i \in 1..Len(me.faces) |-> FaceLoop(me.faces[i])]))]

\* the number of objects that use mesh m
Users(obs, m) == Cardinality({i \in 1..Len(obs) : obs[i].data = m})

NameOfMesh == <<65>>

\* the coordinate lists: n vertices
Coords(n) == [i \in 1..n |-> <<i, i * i, 1>>]

\* the edge lists for n vertices
EdgeLists(n) ==
    {<<>>} \cup (IF n >= 2 THEN {<< <<0, 1>> >>} ELSE {})
           \cup (IF n >= 3 THEN {<< <<0, 2>>, <<1, 2>> >>} ELSE {})

\* the scenes, where the mesh of an object called name may come from an earlier
\* create_mesh(name, ...), and where two mesh objects may share one mesh
InitMesh ==
    /\ \E obs \in Scenes, earlier \in BOOLEAN, shared \in BOOLEAN :
          LET named(o) == IF earlier /\ o.type = "MESH" /\ o.name = NameOfMesh
                          THEN [o EXCEPT !.data = mesh_name(NameOfMesh)] ELSE o
              first == CHOOSE i \in 1..Len(obs) : obs[i].type = "MESH"
              one(o) == IF shared /\ o.type = "MESH"
                        THEN [o EXCEPT !.data = named(obs[first]).data] ELSE named(o)
          IN  /\ objects = [i \in 1..Len(obs) |-> one(obs[i])]
              /\ meshes = [m \in {objects[i].data : i \in 1..Len(obs)} \ {None} |->
                              SceneMesh(CHOOSE n \in ObjectNames :
                                  \E i \in 1..Len(obs) : obs[i].name = n /\ objects[i].data = m)]
    /\ active = None
    /\ frame_current = 1
    /\ pc = "mesh_new"
    /\ \E n \in 0..MaxCoords, connect \in BOOLEAN :
          \E edges \in EdgeLists(n) :
             args = [name |-> NameOfMesh, coords |-> Coords(n), connect |-> connect,
                     edges |-> edges]
    /\ locals = [me |-> None, ob |-> None, edges |-> args.edges]
    /\ out = [ret |-> None]
    /\ before = CurrentScene

\* lines 208-210
Mesh_New ==
    /\ pc = "mesh_new"
    /\ LET me == UniqueName(DOMAIN meshes, mesh_name(args.name))
       IN  /\ meshes' = [m \in DOMAIN meshes \cup {me} |->
                            IF m = me THEN NewMesh ELSE meshes[m]]
           /\ locals' = [locals EXCEPT !.me = me]
    /\ pc' = "mesh_attach"
    /\ UNCHANGED <<objects, active, frame_current, args, out, before>>

\* lines 211-218; bpy.data.meshes.remove() raises when the mesh still has users
Mesh_Attach ==
    /\ pc = "mesh_attach"
    /\ IF HasObject(objects, args.name) /\ Object(objects, args.name).type = "MESH"
       THEN LET me_old == Object(objects, args.name).data
                obs == SetField(objects, args.name, "data", locals.me)
            IN  /\ objects' = obs
                /\ locals' = [locals EXCEPT !.ob = args.name]
                /\ IF Users(obs, me_old) = 0
                   THEN /\ meshes' = [m \in DOMAIN meshes \ {me_old} |-> meshes[m]]
                        /\ pc' = "mesh_origin"
                   ELSE /\ meshes' = meshes
                        /\ pc' = "raised"
       ELSE LET ob == UniqueName(Range(scene_objects(objects)), args.name)
            IN  /\ objects' = Append(objects, NewObject(ob, "MESH", locals.me))
                /\ locals' = [locals EXCEPT !.ob = ob]
                /\ meshes' = meshes
                /\ pc' = "mesh_origin"
    /\ UNCHANGED <<active, frame_current, args, out, before>>

\* line 220
Mesh_Origin ==
    /\ pc = "mesh_origin"
    /\ objects' = SetField(objects, locals.ob, "location", <<0, 0, 0>>)
    /\ pc' = "mesh_edges"
    /\ UNCHANGED <<meshes, active, frame_current, args, locals, out, before>>

\* lines 223-226
Mesh_Edges ==
    /\ pc = "mesh_edges"
    /\ locals' = [locals EXCEPT !.edges = choose_edges(args.coords, args.connect, @)]
    /\ pc' = "mesh_fill"
    /\ UNCHANGED <<objects, meshes, active, frame_current, args, out, before>>

\* lines 230-234
Mesh_Fill ==
    /\ pc = "mesh_fill"
    /\ meshes' = [meshes EXCEPT ![locals.me] =
                      mesh_update(from_pydata(@, args.coords, locals.edges, <<>>))]
    /\ pc' = "mesh_return"
    /\ UNCHANGED <<objects, active, frame_current, args, locals, out, before>>

\* line 236
Mesh_Return ==
    /\ pc = "mesh_return"
    /\ out' = [out EXCEPT !.ret = Some(locals.ob)]
    /\ pc' = "done"
    /\ UNCHANGED <<objects, meshes, active, frame_current, args, locals, before>>

NextMesh ==
    \/ Mesh_New
    \/ Mesh_Attach
    \/ Mesh_Origin
    \/ Mesh_Edges
    \/ Mesh_Fill
    \/ Mesh_Return

SpecMesh == InitMesh /\ [][NextMesh]_vars

\* C5: create_mesh fills the mesh with exactly the vertices coords, no faces,
\* and the edges (i, i+1) for i from 0 to len(coords)-2 when connect is True
\* (whatever edges is), else the given edges when there are any, else none; the
\* returned object carries that mesh and lies at the origin.
C5_CreateMeshGeometry ==
    pc = "done" =>
        LET ob == Object(objects, The(out.ret))
            n == Len(args.coords)
        IN  /\ ob.type = "MESH"
            /\ ob.data \in DOMAIN meshes
            /\ ob.location = Origin
            /\ meshes[ob.data].verts = args.coords
            /\ meshes[ob.data].faces = <<>>
            /\ IF args.connect
               THEN /\ Len(meshes[ob.data].edges) = (IF n >= 2 THEN n - 1 ELSE 0)
                    /\ \A i \in 0..(n - 2) : meshes[ob.data].edges[i + 1] = <<i, i + 1>>
               ELSE meshes[ob.data].edges = args.edges

\* create_mesh returned for an existing mesh object that lay away from the
\* origin with another mesh, with connect set and an edges list given as well
C5_Witness ==
    /\ pc = "done"
    /\ args.connect
    /\ Len(args.coords) >= 3
    /\ args.edges # <<>>
    /\ args.edges # meshes[Object(objects, The(out.ret)).data].edges
    /\ HasObject(before.objects, args.name)
    /\ Object(before.objects, args.name).type = "MESH"
    /\ Object(before.objects, args.name).location # Origin
    /\ The(out.ret) = args.name

\* ------------------------------------------------- rotations (mathutils)
\* A quaternion <<w, x, y, z>> of integers stands for the unit quaternion of
\* its direction. Angles are counted in units of 30 degrees, so that half of
\* an angle is a multiple of 15 degrees; an axis is a direction with
\* components -1, 0, 1. The rotations are those of the cube.

Abs(x) == IF x < 0 THEN -x ELSE x

Sign(x) == IF x > 0 THEN 1 ELSE IF x < 0 THEN -1 ELSE 0

Dot(a, b) == a[1] * b[1] + a[2] * b[2] + a[3] * b[3]

\* a * b for quaternions
QMul(a, b) ==
    <<a[1] * b[1] - a[2] * b[2] - a[3] * b[3] - a[4] * b[4],
      a[1] * b[2] + a[2] * b[1] + a[3] * b[4] - a[4] * b[3],
      a[1] * b[3] - a[2] * b[4] + a[3] * b[1] + a[4] * b[2],
      a[1] * b[4] + a[2] * b[3] - a[3] * b[2] + a[4] * b[1]>>

QNeg(q) == <<-q[1], -q[2], -q[3], -q[4]>>

\* q.inverted(): the conjugate (over the squared length, a positive factor)
inverted(q) == <<q[1], -q[2], -q[3], -q[4]>>

QLen2(q) == q[1] * q[1] + q[2] * q[2] + q[3] * q[3] + q[4] * q[4]

\* q * v for a quaternion and a vector: v turned by q
QRotate(q, v) ==
    LET r == QMul(QMul(q, <<0, v[1], v[2], v[3]>>), inverted(q))
    IN  <<r[2] \div QLen2(q), r[3] \div QLen2(q), r[4] \div QLen2(q)>>

\* <<cos, sin>> of k times 45 degrees, times sqrt(2) where both are not 0
CosSin45(k) ==
    << <<1, 0>>, <<1, 1>>, <<0, 1>>, <<-1, 1>>, <<-1, 0>>, <<-1, -1>>, <<0, -1>>, <<1, -1>> >>[(k % 8) + 1]

\* <<cos, sin / sqrt(3)>> of k times 60 degrees, times 2 where both are not 0
CosSin60(k) ==
    << <<1, 0>>, <<1, 1>>, <<-1, 1>>, <<-1, 0>>, <<-1, -1>>, <<1, -1>> >>[(k % 6) + 1]

\* <<cos, sin>> of k times 90 degrees
CosSin90(k) == << <<1, 0>>, <<0, 1>>, <<-1, 0>>, <<0, -1>> >>[(k % 4) + 1]

\* Quaternion(axis, angle), axis_angle_to_quat: cos(angle/2), sin(angle/2) times
\* the normalised axis; the unit quaternion for an axis of length 0
Quaternion(axis, angle) ==
    LET cs == CASE Dot(axis, axis) = 1 -> CosSin45(angle \div 3)
                [] Dot(axis, axis) = 2 -> CosSin90(angle \div 6)
                [] Dot(axis, axis) = 3 -> CosSin60(angle \div 4)
                [] OTHER -> <<1, 0>>
    IN  <<cs[1], cs[2] * axis[1], cs[2] * axis[2], cs[2] * axis[3]>>

\* q.to_axis_angle(): the angle 2 * acos(w) in 0..360 degrees and the axis
\* xyz / sin(angle/2); the axis (1, 0, 0) when xyz is 0
to_axis_angle(q) ==
    LET v == <<q[2], q[3], q[4]>>
    IN  IF Dot(v, v) = 0
        THEN [axis |-> <<1, 0, 0>>, angle |-> IF q[1] > 0 THEN 0 ELSE 12]
        ELSE [axis |-> <<Sign(v[1]), Sign(v[2]), Sign(v[3])>>,
              angle |-> CASE q[1] = 0 -> 6
                          [] q[1] > 0 /\ Dot(v, v) = q[1] * q[1] -> 3
                          [] q[1] < 0 /\ Dot(v, v) = q[1] * q[1] -> 9
                          [] q[1] > 0 /\ Dot(v, v) = 3 * q[1] * q[1] -> 4
                          [] q[1] < 0 /\ Dot(v, v) = 3 * q[1] * q[1] -> 8]

\* rotation_euler.to_quaternion() for the order XYZ
euler_to_quaternion(e) ==
    QMul(QMul(Quaternion(<<0, 0, 1>>, e[3]), Quaternion(<<0, 1, 0>>, e[2])),
         Quaternion(<<1, 0, 0>>, e[1]))

\* Quaternion((1.0, 0.0, 0.0), radians(180.0))
HalfTurnX == Quaternion(<<1, 0, 0>>, 6)

\* ob.rotation_mode = mode: the host converts the rotation to the new mode
set_rotation_mode(o, mode) ==
    LET q == CASE o.rotation_mode = "QUATERNION" -> o.rotation_quaternion
               [] o.rotation_mode = "AXIS_ANGLE" ->
                    Quaternion(SubSeq(o.rotation_axis_angle, 2, 4), o.rotation_axis_angle[1])
               [] OTHER -> euler_to_quaternion(o.rotation_euler)
        aa == to_axis_angle(q)
    IN  IF mode = o.rotation_mode THEN o
        ELSE IF mode = "QUATERNION"
        THEN [o EXCEPT !.rotation_mode = mode, !.rotation_quaternion = q]
        ELSE [o EXCEPT !.rotation_mode = mode,
                       !.rotation_axis_angle = <<aa.angle>> \o aa.axis]

\* ------------------------------------------------------------ print_pose

\* the axis of a rotation vector and its angle
RvecAxis(rvec) == <<Sign(rvec[1]), Sign(rvec[2]), Sign(rvec[3])>>

RvecAngle(rvec) ==
    IF Abs(rvec[1]) > 0 THEN Abs(rvec[1])
    ELSE IF Abs(rvec[2]) > 0 THEN Abs(rvec[2])
    ELSE Abs(rvec[3])

\* trfm.axis_and_angle_from_rvec(rvec): an axis and an angle whose product is
\* rvec; the axis of the rotation vector 0 is not determined
axis_and_angle_from_rvec(rvec) ==
    IF rvec = <<0, 0, 0>>
    THEN {[axis |-> a, angle |-> 0] : a \in {<<0, 0, 0>>, <<1, 0, 0>>, <<0, 0, 1>>}}
    ELSE {[axis |-> RvecAxis(rvec), angle |-> RvecAngle(rvec)],
          [axis |-> VNeg(RvecAxis(rvec)), angle |-> -RvecAngle(rvec)]}

\* cv2.Rodrigues(rvec)[0]: the rotation matrix, as its three columns
Rodrigues(rvec) ==
    LET q == Quaternion(RvecAxis(rvec), RvecAngle(rvec))
    IN  <<QRotate(q, <<1, 0, 0>>), QRotate(q, <<0, 1, 0>>), QRotate(q, <<0, 0, 1>>)>>

\* M.dot(v)
MatDot(M, v) == VAdd(VAdd(VScale(v[1], M[1]), VScale(v[2], M[2])), VScale(v[3], M[3]))

\* ---------------------------------- create_camera_pose, extract_current_pose

\* bpy.ops.object.camera_add(): a new camera at the origin, the only selected
\* object and the active one
camera_add(obs) ==
    Append(select_all_DESELECT(obs),
           [NewObject(UniqueName(Range(scene_objects(obs)), <<67, 97, 109>>), "CAMERA", None)
               EXCEPT !.select = TRUE])

\* ob.name = name: the host keeps names unique
rename(obs, old, name) ==
    SetField(obs, old, "name", UniqueName(Range(scene_objects(obs)) \ {old}, name))

\* rvec without the sign change
rvec_of_Unnegated(aa) == VScale(aa.angle, aa.axis)

\* rvec = [c * -aa[1] for c in aa[0]]
rvec_of(aa) == VScale(-aa.angle, aa.axis)

\* lines 116-122: the rotation of the object as a quaternion
current_quaternion(o) ==
    IF o.rotation_mode = "QUATERNION" THEN o.rotation_quaternion
    ELSE IF o.rotation_mode = "AXIS_ANGLE"
    THEN Quaternion(SubSeq(o.rotation_axis_angle, 2, 4), o.rotation_axis_angle[1])
    ELSE euler_to_quaternion(o.rotation_euler)

\* "C"
NameOfCamera == <<67>>

\* the rotation vectors: multiples of 90 degrees about the coordinate axes
Rvecs ==
    {VScale(a, e) : a \in {-6, -3, 0, 3, 6, 9}, e \in {<<1, 0, 0>>, <<0, 1, 0>>, <<0, 0, 1>>}}

Tvecs ==
    {<<x, y, z>> : x \in -MaxTranslation..MaxTranslation,
                   y \in -MaxTranslation..MaxTranslation,
                   z \in -MaxTranslation..MaxTranslation}

\* the scenes: empty, or with an object of the camera's name, which is a mesh
\* or a camera in one of the rotation modes, turned and away from the origin
PoseScenes ==
    {<<>>, <<SceneObject(NameOfCamera, "MESH", TRUE)>>}
    \cup {<<[SceneObject(NameOfCamera, "CAMERA", FALSE) EXCEPT
                !.rotation_mode = m, !.rotation_euler = <<0, 3, 0>>,
                !.rotation_quaternion = <<1, 0, 1, 0>>,
                !.rotation_axis_angle = <<3, 0, 1, 0>>]>> :
            m \in {"XYZ", "QUATERNION", "AXIS_ANGLE"}}

InitPose ==
    /\ objects \in PoseScenes
    /\ meshes = MeshesOf(objects)
    /\ active = None
    /\ frame_current = 1
    /\ pc = "pose_print"
    /\ \E rvec \in Rvecs, tvec \in Tvecs :
          args = [name |-> NameOfCamera, rvec |-> rvec, tvec |-> tvec]
    /\ locals = [ob |-> None, q |-> None]
    /\ out = [axis |-> None, angle |-> 0, pos |-> None, rvec |-> None, tvec |-> None]
    /\ before = CurrentScene

\* print_pose, lines 67-73
Pose_Print ==
    /\ pc = "pose_print"
    /\ \E aa \in axis_and_angle_from_rvec(VNeg(args.rvec)) :
          out' = [out EXCEPT !.axis = aa.axis, !.angle = aa.angle,
                             !.pos = VNeg(MatDot(Rodrigues(VNeg(args.rvec)), args.tvec))]
    /\ pc' = "pose_camera"
    /\ UNCHANGED <<objects, meshes, active, frame_current, args, locals, before>>

\* create_camera_pose, lines 90-95
Pose_Camera ==
    /\ pc = "pose_camera"
    /\ IF HasObject(objects, args.name) /\ Object(objects, args.name).type = "CAMERA"
       THEN /\ objects' = objects
            /\ active' = active
            /\ locals' = [locals EXCEPT !.ob = args.name]
       ELSE LET added == camera_add(objects)
                new == added[Len(added)].name
                obs == rename(added, new, args.name)
            IN  /\ objects' = obs
                /\ active' = obs[Len(obs)].name
                /\ locals' = [locals EXCEPT !.ob = obs[Len(obs)].name]
    /\ pc' = "pose_set"
    /\ UNCHANGED <<meshes, frame_current, args, out, before>>

\* create_camera_pose, lines 97-105
Pose_Set ==
    /\ pc = "pose_set"
    /\ objects' = [objects EXCEPT ![ObjectIndex(objects, locals.ob)] =
                      [set_rotation_mode(@, "AXIS_ANGLE") EXCEPT
                          !.rotation_axis_angle = <<out.angle>> \o out.axis,
                          !.location = out.pos]]
    /\ pc' = "pose_flip"
    /\ UNCHANGED <<meshes, active, frame_current, args, locals, out, before>>

\* create_camera_pose, lines 107-108
Pose_Flip ==
    /\ pc = "pose_flip"
    /\ objects' = [objects EXCEPT ![ObjectIndex(objects, locals.ob)] =
                      [set_rotation_mode(@, "QUATERNION") EXCEPT
                          !.rotation_quaternion = QMul(@, HalfTurnX)]]
    /\ pc' = "pose_current"
    /\ UNCHANGED <<meshes, active, frame_current, args, locals, out, before>>

\* the camera is made the current object
Pose_MakeCurrent ==
    /\ pc = "pose_current"
    /\ active' = locals.ob
    /\ pc' = "pose_extract"
    /\ UNCHANGED <<objects, meshes, frame_current, args, locals, out, before>>

\* extract_current_pose, lines 115-131
Pose_Extract ==
    /\ pc = "pose_extract"
    /\ LET ob == Object(objects, active)
           q == QMul(current_quaternion(ob), HalfTurnX)
       IN  /\ locals' = [locals EXCEPT !.q = q]
           /\ out' = [out EXCEPT !.rvec = rvec_of(to_axis_angle(q)),
                                  !.tvec = QRotate(inverted(q), VNeg(ob.location))]
    /\ pc' = "done"
    /\ UNCHANGED <<objects, meshes, active, frame_current, args, before>>

NextPose ==
    \/ Pose_Print
    \/ Pose_Camera
    \/ Pose_Set
    \/ Pose_Flip
    \/ Pose_MakeCurrent
    \/ Pose_Extract

SpecPose == InitPose /\ [][NextPose]_vars

\* C7: the pose printed by print_pose for (rvec, tvec), given to
\* create_camera_pose and read back by extract_current_pose from the camera as
\* the current object, denotes the rotation of rvec and the translation tvec;
\* the two half turns about the local X axis cancel: the quaternion read back is
\* the negated quaternion of the printed axis and angle, which is the same
\* rotation.
C7_PoseRoundTrip ==
    pc = "done" =>
        /\ Rodrigues(out.rvec) = Rodrigues(args.rvec)
        /\ out.tvec = args.tvec
        /\ locals.q = QNeg(Quaternion(out.axis, out.angle))
        /\ \A v \in {<<1, 0, 0>>, <<0, 1, 0>>, <<0, 0, 1>>} :
              QRotate(locals.q, v) = QRotate(Quaternion(out.axis, out.angle), v)

\* a pose with a quarter turn about Y and a translation along every axis was
\* read back from a camera that existed, in another rotation mode
C7_Witness ==
    /\ pc = "done"
    /\ args.rvec = <<0, 3, 0>>
    /\ args.tvec = <<1, -1, 1>>
    /\ out.pos # VNeg(args.tvec)
    /\ before.objects # <<>>
    /\ before.objects[1].type = "CAMERA"
    /\ before.objects[1].rotation_mode = "XYZ"

\* ------------------------------------------------- create_cam_trajectory

\* bpy.ops.anim.keyframe_insert_menu(type="BUILTIN_KSI_LocRot"): the location
\* and the rotation of the object are keyed at the frame, in place of an earlier
\* key at that frame
keyframe_insert(o, frame) ==
    [o EXCEPT !.keyframes =
        {k \in @ : k.frame # frame}
        \cup {[frame |-> frame, location |-> o.location,
                rotation_quaternion |-> o.rotation_quaternion]}]

\* line 160: a list is false when it is empty, as None is; i counts from 0
node_frame(framenrs, i) == IF framenrs # <<>> THEN framenrs[i + 1] ELSE i + 1

\* the strictly increasing lists of n frame numbers
FrameLists(n) ==
    {f \in [1..n -> 1..MaxFrame] : \A i, j \in 1..n : i < j => f[i] < f[j]}

\* the orientations (qx, qy, qz, qw) of the nodes
NodeQuaternions == {<<0, 0, 0, 1>>, <<0, 1, 0, 1>>}

InitTraj ==
    /\ objects \in PoseScenes
    /\ meshes = MeshesOf(objects)
    /\ active = None
    /\ frame_current \in {1, 5}
    /\ pc = "traj_backup"
    /\ \E n \in 0..MaxNodes, start_frame \in 1..MaxStartFrame :
          \E framenrs \in {None} \cup FrameLists(n), quaternions \in [1..n -> NodeQuaternions] :
             args = [name |-> NameOfCamera, locations |-> Coords(n),
                     quaternions |-> quaternions, start_frame |-> start_frame,
                     framenrs |-> framenrs]
    /\ locals = [frame_current_backup |-> 0, ob |-> None, i |-> 0]
    /\ out = [path |-> None]
    /\ before = CurrentScene

\* line 143
Traj_Backup ==
    /\ pc = "traj_backup"
    /\ locals' = [locals EXCEPT !.frame_current_backup = frame_current]
    /\ pc' = "traj_camera"
    /\ UNCHANGED <<objects, meshes, active, frame_current, args, out, before>>

\* lines 146-156
Traj_Camera ==
    /\ pc = "traj_camera"
    /\ LET obs == IF HasObject(objects, args.name) /\ Object(objects, args.name).type = "CAMERA"
                  THEN SetField(select_all_DESELECT(objects), args.name, "select", TRUE)
                  ELSE LET added == camera_add(objects)
                       IN  rename(added, added[Len(added)].name, args.name)
           ob == IF HasObject(objects, args.name) /\ Object(objects, args.name).type = "CAMERA"
                 THEN args.name
                 ELSE obs[Len(obs)].name
       IN  /\ objects' = [obs EXCEPT ![ObjectIndex(obs, ob)] = set_rotation_mode(@, "QUATERNION")]
           /\ active' = ob
           /\ locals' = [locals EXCEPT !.ob = ob]
    /\ pc' = "traj_node"
    /\ UNCHANGED <<meshes, frame_current, args, out, before>>

\* lines 159-170: one pass of the loop
Traj_Node ==
    /\ pc = "traj_node"
    /\ locals.i < Min(Len(args.locations), Len(args.quaternions))
    /\ LET frame == node_frame(args.framenrs, locals.i)
           qn == args.quaternions[locals.i + 1]
       IN  /\ frame_current' = frame
           /\ objects' = [objects EXCEPT ![ObjectIndex(objects, locals.ob)] =
                 keyframe_insert(
                    [@ EXCEPT !.location = args.locations[locals.i + 1],
                              !.rotation_quaternion =
                                  QMul(<<qn[4], qn[1], qn[2], qn[3]>>, HalfTurnX)],
                    frame)]
    /\ locals' = [locals EXCEPT !.i = @ + 1]
    /\ UNCHANGED <<meshes, active, pc, args, out, before>>

\* lines 173-177
Traj_Path ==
    /\ pc = "traj_node"
    /\ locals.i = Min(Len(args.locations), Len(args.quaternions))
    /\ out' = [out EXCEPT !.path = Some(
                 IF args.framenrs # <<>>
                 THEN [show_keyframe_highlight |-> TRUE,
                       start_frame |-> args.framenrs[1],
                       end_frame |-> args.framenrs[Len(args.framenrs)]]
                 ELSE [show_keyframe_highlight |-> FALSE,
                       start_frame |-> args.start_frame,
                       end_frame |-> args.start_frame + Len(args.locations)])]
    /\ pc' = "traj_restore"
    /\ UNCHANGED <<objects, meshes, active, frame_current, args, locals, before>>

\* line 179
Traj_Restore ==
    /\ pc = "traj_restore"
    /\ frame_current' = locals.frame_current_backup
    /\ pc' = "done"
    /\ UNCHANGED <<objects, meshes, active, args, locals, out, before>>

NextTraj ==
    \/ Traj_Backup
    \/ Traj_Camera
    \/ Traj_Node
    \/ Traj_Path
    \/ Traj_Restore

SpecTraj == InitTraj /\ [][NextTraj]_vars

\* the key of node i (counted from 1) at the frame
HasKey(o, frame, i) ==
    \E k \in o.keyframes :
        /\ k.frame = frame
        /\ k.location = args.locations[i]
        /\ k.rotation_quaternion =
              QMul(<<args.quaternions[i][4], args.quaternions[i][1],
                     args.quaternions[i][2], args.quaternions[i][3]>>, HalfTurnX)

\* C6: create_cam_trajectory inserts one location and rotation key per node:
\* node i (counted from 0) at frame framenrs[i] when framenrs is given, at
\* frame start_frame + i when it is omitted, for every start_frame.
C6_KeyframesFromStartFrame ==
    pc = "done" =>
        /\ Cardinality(Object(objects, locals.ob).keyframes) = Len(args.locations)
        /\ \A i \in 1..Len(args.locations) :
              HasKey(Object(objects, locals.ob),
                     IF args.framenrs # <<>> THEN args.framenrs[i]
                     ELSE args.start_frame + (i - 1),
                     i)

====
